---- MODULE Spec2Model ----
(***************************************************************************)
(* Content-generation orchestration pipeline of contemplation-flow-web.    *)
(*                                                                         *)
(* The client (frontend/src/apis/api.ts) creates a generation with         *)
(* POST /content and polls GET /content/{id}.  The backend run behind it   *)
(* is described by the performance notes (src/unnamed/part_003), the       *)
(* timing analysis (src/VIDEO_GENERATION_ANALYSIS.md) and the wire types   *)
(* (src/unnamed/part_001); its Python sources are not part of the tree, so *)
(* the orchestrator's bookkeeping is modelled from the specification.      *)
(*                                                                         *)
(* Four specifications share the variables: Spec/FairSpec (the backend     *)
(* run), DialogSpec (ContemplationModal and InlineMeditationCreator with   *)
(* their polling hook, in front of the StatusStore), PageSpec (the Chat    *)
(* page's panel flags above that dialog) and AuthSpec/AuthFairSpec         *)
(* (AuthProvider, the API client's response interceptor, ProtectedRoute).  *)
(***************************************************************************)
EXTENDS Integers, FiniteSets, Sequences, TLC

\* ------------------------------------------------------------------ bounds
MaxRuns == 2          \* generation requests accepted in one behaviour
NumSources == 2       \* distinct source contents a conversation can have
MaxTicks == 1         \* clock steps taken in one behaviour
TicksPerTTL == 1      \* clock steps that make up one cache lifetime
MaxInflight == 1      \* getContent requests of one id awaiting their answer
MaxNotified == 2      \* onContentGenerated invocations in one behaviour
MaxTokens == 2        \* token pairs the server issues in one behaviour

\* --------------------------------------------------------------- constants
CACHE_TTL == 3600
TickSeconds == CACHE_TTL \div TicksPerTTL

Ids == 1..MaxRuns
Sources == 1..NumSources
Modes == {"audio", "video", "image"}
\* what a request may carry as its mode: the three modes and an unknown one
AnyModes == Modes \cup {"text"}
\* an identifier the request does not carry
NoId == 0
\* a conversation is identified by the source content it holds
ConversationIds == Sources
MessageIds == {1}
\* the stages of one run, in pipeline order; "fetch" is the source-content
\* query, the other five are the external calls
Stages == {"fetch", "text", "image", "speech", "encode", "upload"}

NoUrl == "null"
NoError == <<>>
NoEntry == [value |-> 0, expires_at |-> 0]
NoText == 0
IMAGE_PROMPT == 1
\* the temporary files of one encoder invocation: the two inputs and the output
TempFiles == {"image_path", "audio_path", "video_path"}
\* the shared mutable state a lock may guard
Resources == {"cache", "store"}
\* what CreateGeneration answered last
NoResponse == [id |-> NoId, status |-> "none"]
Rejected == [id |-> NoId, status |-> "rejected"]

VARIABLES
    store,            \* StatusStore: id -> GenerationRecord
    req,              \* id -> the GenerationRequest that created the record
    stage,            \* id -> stage -> state of that stage call
    calls,            \* id -> stage -> number of external invocations made
    transcript,       \* id -> narration text the run holds (producer id)
    uploaded,         \* id -> the artifact handed to ArtifactStore
    textAt,           \* id -> time of the last step of its transcript stage
                      \* (the cache read, then the call's return), -1 before
    transcript_cache, \* cache key -> CacheEntry
    image_cache,      \* prompt -> CacheEntry
    now,              \* wall clock, seconds
    nextId,           \* next record id to hand out
    response,         \* the answer of the last CreateGeneration call
    tmp,              \* id -> temporary files of its encoder invocation on disk
    locks,            \* resource -> id of the run holding its lock, NoId if free
    \* ---- the generation dialog of the client
    component,        \* "card": ContemplationModal, "guide": InlineMeditationCreator
    isOpen,           \* prop isOpen
    fullScreen,       \* useState fullScreen
    contentId,        \* useState contentId, NoId for null
    isInitiating,     \* useState isInitiating
    error,            \* useState error of the dialog
    status,           \* useContentPolling: status, "null" before the first answer
    contentUrl,       \* useContentPolling: contentUrl
    pollingError,     \* useContentPolling: error
    post,             \* the createContent request under way
    polls,            \* id -> getContent requests awaiting their answer
    terminalSeen,     \* ids for which a poll has answered complete or failed
    notified,         \* invocations of onContentGenerated so far
    \* ---- authentication of the client
    user,             \* AuthProvider: useState user, NoUser for null
    authIsLoading,    \* AuthProvider: useState isLoading
    isAuthenticated,  \* AuthProvider: the value computed by its last render
    localStorage,     \* accessToken and refreshToken, NoToken when absent
    path,             \* the route the router is at
    rendered,         \* what ProtectedRoute returned in the last render
    commit,           \* parity of the number of renders so far
    check,            \* where checkAuth() is: start, me, refresh, done
    refreshing,       \* the /auth/refresh request under way and who sent it
    loginCall,        \* the /auth/login request of login(): idle or sent
    logoutCall,       \* the /auth/logout request under way: idle, sent (by
                      \* AuthProvider's logout) or api (by authAPI.logout)
    navigating,       \* window.location.href was assigned, the load is due
    lastReply,        \* the last answer an auth request got on this page
    issued,           \* token pairs the server has issued
    \* ---- the Chat page
    showExploreMore,        \* useState showExploreMore
    showContemplation,      \* useState showContemplation
    showMeditationCreator,  \* useState showMeditationCreator
    currentInput            \* useState currentInput

pipeline == <<store, req, stage, calls, transcript, uploaded, textAt,
              transcript_cache, image_cache, now, nextId, response, tmp, locks>>
dialog == <<component, isOpen, fullScreen, contentId, isInitiating, error, status,
            contentUrl, pollingError, post, polls, terminalSeen, notified>>
auth == <<user, authIsLoading, isAuthenticated, localStorage, path, rendered,
          commit, check, refreshing, loginCall, logoutCall, navigating,
          lastReply, issued>>
page == <<showExploreMore, showContemplation, showMeditationCreator,
          currentInput>>
client == <<dialog, auth, page>>
vars == <<pipeline, client>>

\* ------------------------------------------------------------ data model
NoRecord == [status |-> "none", content_type |-> "none",
             content_url |-> NoUrl, error |-> NoError]
NoRequest == [mode |-> "none", source |-> 0]
IdleStages == [s \in Stages |-> "idle"]
NoCalls == [s \in Stages |-> 0]

Terminal(st) == st \in {"complete", "failed"}

\* _get_cache_key(source_text): a content hash, injective on the sources
get_cache_key(source_text) == source_text

\* a get that tests membership only: an entry is served however old it is
CacheGetNoExpiry(cache, key, t) == cache[key]

\* ContentCache.get: the entry, or NoEntry once expires_at has passed
CacheGet(cache, key, t) ==
    IF cache[key] # NoEntry /\ t < cache[key].expires_at
    THEN cache[key] ELSE NoEntry

\* ContentCache.put: upsert, last writer wins, expires_at = now + TTL
CachePut(cache, key, value, t) ==
    [cache EXCEPT ![key] = [value |-> value, expires_at |-> t + CACHE_TTL]]

\* the URL ArtifactStore returns for the artifact uploaded by run id
UrlOf(id, artifact) == <<"url", id, artifact>>

\* the error text recorded for a failure of stage s
ErrorOf(s, kind) == <<s, kind>>

\* ------------------------------------------------------------------ Init
PipelineInit ==
    /\ store = [i \in Ids |-> NoRecord]
    /\ req = [i \in Ids |-> NoRequest]
    /\ stage = [i \in Ids |-> IdleStages]
    /\ calls = [i \in Ids |-> NoCalls]
    /\ transcript = [i \in Ids |-> NoText]
    /\ uploaded = [i \in Ids |-> "none"]
    /\ textAt = [i \in Ids |-> -1]
    /\ transcript_cache = [k \in Sources |-> NoEntry]
    /\ image_cache = [k \in {IMAGE_PROMPT} |-> NoEntry]
    /\ now = 0
    /\ nextId = 1
    /\ response = NoResponse
    /\ tmp = [i \in Ids |-> {}]
    /\ locks = [r \in Resources |-> NoId]

\* the messages the dialog shows
NoMessage == "null"
MissingInfo == "Missing conversation or message information"
StartFailed ==
    IF component = "card" THEN "Failed to start generation"
    ELSE "Failed to start meditation guide generation"
GenerationFailed ==
    IF component = "card" THEN "Content generation failed"
    ELSE "Meditation guide generation failed"
StatusCheckFailed ==
    IF component = "card" THEN "Failed to check content status"
    ELSE "Failed to check meditation guide status"

Kinds == {"card", "guide"}
NoPost == [state |-> "none", conversation_id |-> NoId, message_id |-> NoId,
           mode |-> "none", reply |-> NoResponse]

\* the dialog as mounted by the page: closed, nothing tracked, nothing polled
DialogInit ==
    /\ isOpen = FALSE
    /\ fullScreen = FALSE
    /\ contentId = NoId
    /\ isInitiating = FALSE
    /\ error = NoMessage
    /\ status = "null"
    /\ contentUrl = NoUrl
    /\ pollingError = NoMessage
    /\ post = NoPost
    /\ polls = [i \in Ids |-> 0]
    /\ terminalSeen = {}
    /\ notified = 0

\* localStorage.getItem returns null
NoToken == 0
NoUser == "null"
TheUser == "user"
NoTokens == [accessToken |-> NoToken, refreshToken |-> NoToken]
NotRefreshing == [caller |-> "none", refresh_token |-> NoToken]
NoReply == [call |-> "none", status |-> NoToken]
Paths == {"/", "/signin"}

\* the application as loaded at route p: AuthProvider's first render, before
\* its mount effect; the storage is what the browser kept
Loaded(p) ==
    /\ user = NoUser
    /\ authIsLoading = TRUE
    /\ isAuthenticated = FALSE
    /\ path = p
    /\ rendered = IF p = "/signin" THEN "unmounted" ELSE "spinner"
    /\ check = "start"
    /\ refreshing = NotRefreshing
    /\ loginCall = "idle"
    /\ logoutCall = "idle"
    /\ navigating = FALSE
    /\ lastReply = NoReply

\* a first visit of a protected page, nothing stored
AuthInit ==
    /\ Loaded("/")
    /\ localStorage = NoTokens
    /\ commit = FALSE
    /\ issued = 0

\* the follow-up questions the explore panel offers
Questions == {"question"}
NoInput == ""

\* the Chat page as mounted: no panel shown, nothing typed
PageInit ==
    /\ showExploreMore = FALSE
    /\ showContemplation = FALSE
    /\ showMeditationCreator = FALSE
    /\ currentInput = NoInput

Init ==
    /\ PipelineInit
    /\ component = "card"
    /\ DialogInit
    /\ AuthInit
    /\ PageInit

\* -------------------------------------------------------------- helpers
\* FailRecord without the status test: any failure overwrites the record
FailRecordUnguarded(rec, s, kind) ==
    [rec EXCEPT !.status = "failed", !.error = ErrorOf(s, kind)]

\* the record of run i after a failure of stage s: written only while the
\* run is still processing
FailRecord(rec, s, kind) ==
    IF rec.status = "processing"
    THEN [rec EXCEPT !.status = "failed", !.error = ErrorOf(s, kind)]
    ELSE rec

\* an external call of stage s is issued by run i
Invoke(i, s) == [calls EXCEPT ![i][s] = @ + 1]

\* a join that waits for the transcript only
Step2DoneTextOnly(st) == st["text"] \in {"hit", "ok"}

\* gather(...): both results are in
Step2Done(st) == st["text"] \in {"hit", "ok"} /\ st["image"] \in {"hit", "ok"}

\* the stage the orchestrator starts once step 2 has produced both outputs
AfterStep2(mode) == IF mode = "image" THEN "upload" ELSE "speech"

\* every narrated run is sent through the encoder
AfterSpeechAlwaysEncode(mode) == "encode"

\* the stage that follows SpeechSynthesizer
AfterSpeech(mode) == IF mode = "audio" THEN "upload" ELSE "encode"

\* stage states after the orchestrator's continuation of run i: when both
\* gathered results are in and the run is still processing, the next stage's
\* call is issued
Continue(i, st) ==
    IF Step2Done(st) /\ store[i].status = "processing"
       /\ st[AfterStep2(req[i].mode)] = "idle"
    THEN [st EXCEPT ![AfterStep2(req[i].mode)] = "running"]
    ELSE st

ContinueCalls(i, st) ==
    IF Continue(i, st) # st THEN Invoke(i, AfterStep2(req[i].mode)) ELSE calls

\* a cleanup that removes the inputs it wrote and leaves the encoder's output
CleanupInputsOnly(t, i) == [t EXCEPT ![i] = @ \cap {"video_path"}]

\* the deferred cleanup of run i's encoder invocation: every file it made
Cleanup(t, i) == [t EXCEPT ![i] = {}]

\* run i takes the lock of resource r for a piece of in-memory bookkeeping
Acquire(l, i, r) == [l EXCEPT ![r] = i]

\* a release that is put off while a call of the run is in flight
ReleaseAfterCall(l, i, r) ==
    IF \E s \in Stages : stage[i][s] = "running"
    THEN l
    ELSE [l EXCEPT ![r] = IF @ = i THEN NoId ELSE @]

\* run i gives the lock of r back
Release(l, i, r) == [l EXCEPT ![r] = IF @ = i THEN NoId ELSE @]

\* the bookkeeping of this step on resource r is done by run i under r's
\* lock, taken and given back within the step
Locked(i, r) ==
    /\ locks[r] = NoId
    /\ locks' = Release(Acquire(locks, i, r), i, r)

\* --------------------------------------------------------------- actions
clock == <<now>>
caches == <<transcript_cache, image_cache>>
texts == <<transcript, textAt>>

\* the bytes handed to ArtifactStore when this step started the upload
Handoff(i, artifact) ==
    uploaded' = IF stage[i]["upload"] = "idle" /\ stage'[i]["upload"] = "running"
                THEN [uploaded EXCEPT ![i] = artifact]
                ELSE uploaded

\* a request that names a mode of the product and carries both identifiers
WellFormed(conversation_id, message_id, mode) ==
    /\ conversation_id # NoId
    /\ message_id # NoId
    /\ mode \in Modes

\* an endpoint that creates the record before it looks at the request
CreateGenerationUnvalidated(conversation_id, message_id, mode) ==
    /\ nextId <= MaxRuns
    /\ Locked(nextId, "store")
    /\ store' = [store EXCEPT ![nextId] =
                    [status |-> "pending", content_type |-> mode,
                     content_url |-> NoUrl, error |-> NoError]]
    /\ req' = [req EXCEPT ![nextId] =
                  [mode |-> mode, source |-> conversation_id]]
    /\ nextId' = nextId + 1
    /\ response' = [id |-> nextId, status |-> "pending"]
    /\ UNCHANGED <<stage, calls, uploaded, texts, caches, clock, tmp>>

\* POST /content: a malformed request is rejected and nothing is created;
\* otherwise the record is created pending and its id returned
CreateGeneration(conversation_id, message_id, mode) ==
    /\ nextId <= MaxRuns
    /\ IF WellFormed(conversation_id, message_id, mode)
       THEN /\ Locked(nextId, "store")
            /\ store' = [store EXCEPT ![nextId] =
                            [status |-> "pending", content_type |-> mode,
                             content_url |-> NoUrl, error |-> NoError]]
            /\ req' = [req EXCEPT ![nextId] =
                          [mode |-> mode, source |-> conversation_id]]
            /\ nextId' = nextId + 1
            /\ response' = [id |-> nextId, status |-> "pending"]
       ELSE /\ response' = Rejected
            /\ UNCHANGED <<store, req, nextId, locks>>
    /\ UNCHANGED <<stage, calls, uploaded, texts, caches, clock, tmp>>

\* a request reaches the endpoint from a caller other than the dialog
Submit(conversation_id, message_id, mode) ==
    /\ CreateGeneration(conversation_id, message_id, mode)
    /\ UNCHANGED client

\* a background task that issues the source-content query without marking
\* the record processing
BeginRunKeepsPending(i) ==
    /\ store[i].status = "pending"
    /\ stage[i]["fetch"] = "idle"
    /\ stage' = [stage EXCEPT ![i]["fetch"] = "running"]
    /\ calls' = Invoke(i, "fetch")
    /\ UNCHANGED <<store, req, uploaded, texts, caches, clock, nextId, response,
                   tmp, locks, client>>

\* the background task begins: processing, then the source-content query
BeginRun(i) ==
    /\ store[i].status = "pending"
    /\ store' = [store EXCEPT ![i].status = "processing"]
    /\ stage' = [stage EXCEPT ![i]["fetch"] = "running"]
    /\ calls' = Invoke(i, "fetch")
    /\ Locked(i, "store")
    /\ UNCHANGED <<req, uploaded, texts, caches, clock, nextId, response, tmp,
                   client>>

\* the sequential pipeline: only the transcript is started after the query
FetchOkSequential(i) ==
    /\ stage[i]["fetch"] = "running"
    /\ stage' = [stage EXCEPT ![i] =
                    IF store[i].status = "processing"
                    THEN [@ EXCEPT !["fetch"] = "ok", !["text"] = "launched"]
                    ELSE [@ EXCEPT !["fetch"] = "ok"]]
    /\ UNCHANGED <<store, req, calls, uploaded, texts, caches, clock, nextId,
                   response, tmp, locks, client>>

\* collect_source_content returned: gather(transcript, image) launches both
FetchOk(i) ==
    /\ stage[i]["fetch"] = "running"
    /\ stage' = [stage EXCEPT ![i] =
                    IF store[i].status = "processing"
                    THEN [@ EXCEPT !["fetch"] = "ok", !["text"] = "launched",
                                   !["image"] = "launched"]
                    ELSE [@ EXCEPT !["fetch"] = "ok"]]
    /\ UNCHANGED <<store, req, calls, uploaded, texts, caches, clock, nextId,
                   response, tmp, locks, client>>

\* a transcript stage that never consults the cache
TranscriptLookupNoCache(i) ==
    /\ stage[i]["text"] = "launched"
    /\ stage' = [stage EXCEPT ![i]["text"] = "running"]
    /\ calls' = Invoke(i, "text")
    /\ UNCHANGED <<store, req, uploaded, texts, caches, clock, nextId, response,
                   tmp, locks, client>>

\* generate_meditation_transcript_optimized up to its first await: the cache
\* is consulted, a hit returns, a miss issues the text-generation call
TranscriptLookup(i) ==
    /\ stage[i]["text"] = "launched"
    /\ LET e == CacheGet(transcript_cache, get_cache_key(req[i].source), now)
           st == IF e # NoEntry
                 THEN [stage[i] EXCEPT !["text"] = "hit"]
                 ELSE [stage[i] EXCEPT !["text"] = "running"]
       IN /\ stage' = [stage EXCEPT ![i] = Continue(i, st)]
          /\ calls' = IF e # NoEntry THEN ContinueCalls(i, st)
                      ELSE Invoke(i, "text")
          /\ transcript' = IF e # NoEntry
                           THEN [transcript EXCEPT ![i] = e.value]
                           ELSE transcript
          /\ textAt' = [textAt EXCEPT ![i] = now]
    /\ Handoff(i, "image")
    /\ Locked(i, "cache")
    /\ UNCHANGED <<store, req, caches, clock, nextId, response, tmp, client>>

\* generate_image_cached up to its first await
ImageLookup(i) ==
    /\ stage[i]["image"] = "launched"
    /\ LET e == CacheGet(image_cache, IMAGE_PROMPT, now)
           st == IF e # NoEntry
                 THEN [stage[i] EXCEPT !["image"] = "hit"]
                 ELSE [stage[i] EXCEPT !["image"] = "running"]
       IN /\ stage' = [stage EXCEPT ![i] = Continue(i, st)]
          /\ calls' = IF e # NoEntry THEN ContinueCalls(i, st)
                      ELSE Invoke(i, "image")
    /\ Handoff(i, "image")
    /\ Locked(i, "cache")
    /\ UNCHANGED <<store, req, texts, caches, clock, nextId, response, tmp,
                   client>>

\* the text-generation call returned text: cache it, then continue
TranscriptOk(i) ==
    /\ stage[i]["text"] = "running"
    /\ transcript_cache' =
          CachePut(transcript_cache, get_cache_key(req[i].source), i, now)
    /\ transcript' = [transcript EXCEPT ![i] = i]
    /\ textAt' = [textAt EXCEPT ![i] = now]
    /\ LET st == [stage[i] EXCEPT !["text"] = "ok"]
       IN /\ stage' = [stage EXCEPT ![i] = Continue(i, st)]
          /\ calls' = ContinueCalls(i, st)
    /\ Handoff(i, "image")
    /\ Locked(i, "cache")
    /\ UNCHANGED <<store, req, image_cache, clock, nextId, response, tmp,
                   client>>

\* the image-generation call returned bytes: cache them, then continue
ImageOk(i) ==
    /\ stage[i]["image"] = "running"
    /\ image_cache' = CachePut(image_cache, IMAGE_PROMPT, i, now)
    /\ LET st == [stage[i] EXCEPT !["image"] = "ok"]
       IN /\ stage' = [stage EXCEPT ![i] = Continue(i, st)]
          /\ calls' = ContinueCalls(i, st)
    /\ Handoff(i, "image")
    /\ Locked(i, "cache")
    /\ UNCHANGED <<store, req, texts, transcript_cache, clock, nextId,
                   response, tmp, client>>

\* SynthesizeSpeech returned audio bytes: upload them or encode the video
SpeechOk(i) ==
    /\ stage[i]["speech"] = "running"
    /\ LET nxt == AfterSpeech(req[i].mode)
           go == store[i].status = "processing"
       IN /\ stage' = [stage EXCEPT ![i] =
                          IF go THEN [@ EXCEPT !["speech"] = "ok",
                                               ![nxt] = "running"]
                          ELSE [@ EXCEPT !["speech"] = "ok"]]
          /\ calls' = IF go THEN Invoke(i, nxt) ELSE calls
          /\ tmp' = IF go /\ nxt = "encode"
                    THEN [tmp EXCEPT ![i] = {"image_path", "audio_path"}]
                    ELSE tmp
    /\ Handoff(i, "audio")
    /\ UNCHANGED <<store, req, texts, caches, clock, nextId, response, locks,
                   client>>

\* the encoder process exited 0: upload the video
EncodeOk(i) ==
    /\ stage[i]["encode"] = "running"
    /\ "video_path" \in tmp[i]
    /\ tmp' = Cleanup(tmp, i)
    /\ LET go == store[i].status = "processing"
       IN /\ stage' = [stage EXCEPT ![i] =
                          IF go THEN [@ EXCEPT !["encode"] = "ok",
                                               !["upload"] = "running"]
                          ELSE [@ EXCEPT !["encode"] = "ok"]]
          /\ calls' = IF go THEN Invoke(i, "upload") ELSE calls
    /\ Handoff(i, "video")
    /\ UNCHANGED <<store, req, texts, caches, clock, nextId, response, locks,
                   client>>

\* CompleteRecord without the status test: a late upload completes a
\* record that already failed
CompleteRecordUnguarded(rec, url) ==
    [rec EXCEPT !.status = "complete", !.content_url = url]

\* the record of run i once its upload returned a URL
CompleteRecord(rec, url) ==
    IF rec.status = "processing"
    THEN [rec EXCEPT !.status = "complete", !.content_url = url]
    ELSE rec

\* Upload returned the URL: the record becomes complete
UploadOk(i) ==
    /\ stage[i]["upload"] = "running"
    /\ stage' = [stage EXCEPT ![i]["upload"] = "ok"]
    /\ store' = [store EXCEPT ![i] = CompleteRecord(@, UrlOf(i, uploaded[i]))]
    /\ Locked(i, "store")
    /\ UNCHANGED <<req, calls, uploaded, texts, caches, clock, nextId, response,
                   tmp, client>>

\* a failed call is issued again instead of failing the run
StageErrorRetry(i, s) ==
    /\ stage[i][s] = "running"
    /\ calls' = Invoke(i, s)
    /\ UNCHANGED <<store, req, stage, uploaded, texts, caches, clock, nextId,
                   response, tmp, locks, client>>

\* a stage call returned an error (provider error, non-zero exit, ...)
StageError(i, s) ==
    /\ stage[i][s] = "running"
    /\ stage' = [stage EXCEPT ![i][s] = "failed"]
    /\ store' = [store EXCEPT ![i] = FailRecord(@, s, "error")]
    /\ tmp' = IF s = "encode" THEN Cleanup(tmp, i) ELSE tmp
    /\ Locked(i, "store")
    /\ UNCHANGED <<req, calls, uploaded, texts, caches, clock, nextId, response,
                   client>>

\* a timed-out transcript call whose partial output is cached all the same
StageTimeoutCachesPartial(i, s) ==
    /\ stage[i][s] = "running"
    /\ stage' = [stage EXCEPT ![i][s] = "timedout"]
    /\ store' = [store EXCEPT ![i] = FailRecord(@, s, "timeout")]
    /\ transcript_cache' =
          IF s = "text"
          THEN CachePut(transcript_cache, get_cache_key(req[i].source), i, now)
          ELSE transcript_cache
    /\ tmp' = IF s = "encode" THEN Cleanup(tmp, i) ELSE tmp
    /\ UNCHANGED <<req, calls, uploaded, texts, image_cache, clock, nextId,
                   response, locks, client>>

\* the stage's own timeout fired before the call returned: the call is
\* cancelled, whatever it answers later is dropped
StageTimeout(i, s) ==
    /\ stage[i][s] = "running"
    /\ stage' = [stage EXCEPT ![i][s] = "timedout"]
    /\ store' = [store EXCEPT ![i] = FailRecord(@, s, "timeout")]
    /\ tmp' = IF s = "encode" THEN Cleanup(tmp, i) ELSE tmp
    /\ Locked(i, "store")
    /\ UNCHANGED <<req, calls, uploaded, texts, caches, clock, nextId, response,
                   client>>

\* a ceiling armed around the source-content query only
CeilingStep1Only(i) ==
    /\ store[i].status = "processing"
    /\ stage[i]["fetch"] = "running"
    /\ store' = [store EXCEPT ![i] = FailRecord(@, "run", "timeout")]
    /\ UNCHANGED <<req, stage, calls, uploaded, texts, caches, clock, nextId,
                   response, tmp, locks, client>>

\* CONTENT_GENERATION_TIMEOUT: the request-level ceiling fires; an encoder
\* process of the run is killed and its files removed before the failure is
\* recorded
Ceiling(i) ==
    /\ store[i].status = "processing"
    /\ stage' = IF stage[i]["encode"] = "running"
                THEN [stage EXCEPT ![i]["encode"] = "timedout"]
                ELSE stage
    /\ tmp' = Cleanup(tmp, i)
    /\ store' = [store EXCEPT ![i] = FailRecord(@, "run", "timeout")]
    /\ Locked(i, "store")
    /\ UNCHANGED <<req, calls, uploaded, texts, caches, clock, nextId, response,
                   client>>

\* the encoder process writes its output file
EncoderOutput(i) ==
    /\ stage[i]["encode"] = "running"
    /\ "video_path" \notin tmp[i]
    /\ tmp' = [tmp EXCEPT ![i] = @ \cup {"video_path"}]
    /\ UNCHANGED <<store, req, stage, calls, uploaded, texts, caches, clock,
                   nextId, response, locks, client>>

\* time passes
Tick ==
    /\ now < MaxTicks * TickSeconds
    /\ now' = now + TickSeconds
    /\ UNCHANGED <<store, req, stage, calls, uploaded, texts, caches, nextId,
                   response, tmp, locks, client>>

Next ==
    \/ \E c \in ConversationIds \cup {NoId}, m \in MessageIds \cup {NoId},
          mode \in AnyModes : Submit(c, m, mode)
    \/ \E i \in Ids : BeginRun(i)
    \/ \E i \in Ids : FetchOk(i)
    \/ \E i \in Ids : TranscriptLookup(i)
    \/ \E i \in Ids : ImageLookup(i)
    \/ \E i \in Ids : TranscriptOk(i)
    \/ \E i \in Ids : ImageOk(i)
    \/ \E i \in Ids : SpeechOk(i)
    \/ \E i \in Ids : EncoderOutput(i)
    \/ \E i \in Ids : EncodeOk(i)
    \/ \E i \in Ids : UploadOk(i)
    \/ \E i \in Ids, s \in Stages : StageError(i, s)
    \/ \E i \in Ids, s \in Stages : StageTimeout(i, s)
    \/ \E i \in Ids : Ceiling(i)
    \/ Tick

Spec == Init /\ [][Next]_vars

\* the background task of an accepted request is scheduled, and the ceiling
\* timer of a run that is still processing fires; no external call is
\* assumed to return
Fairness == \A i \in Ids : WF_vars(BeginRun(i)) /\ WF_vars(Ceiling(i))

FairSpec == Init /\ [][Next]_vars /\ Fairness

\* ------------------------------------------------- the generation dialog
\* ContemplationModal (kind "card") and InlineMeditationCreator (kind
\* "guide") share one shape: a create handler, the polling hook and three
\* effects.  A handler, the render that follows it and the effects of that
\* render are one step.  The page's own state (conversation data, input
\* text) is not modelled: its renders happen at any time.

\* the React state a handler starts from
Cur == [isOpen |-> isOpen, fullScreen |-> fullScreen, contentId |-> contentId,
        isInitiating |-> isInitiating, error |-> error, status |-> status,
        contentUrl |-> contentUrl, pollingError |-> pollingError]

\* const isLoading = isInitiating || (contentId && status !== 'complete' &&
\*                                    status !== 'failed')
isLoading ==
    isInitiating \/ (contentId # NoId /\ status \notin {"complete", "failed"})

\* const displayError = error || pollingError
displayError == IF error # NoMessage THEN error ELSE pollingError

\* const shouldPoll = !!(contentId && !fullScreen)
shouldPoll(h) == h.contentId # NoId /\ ~h.fullScreen

\* the page passes onContentGenerated to ContemplationModal only, as a new
\* arrow function in each of its renders; InlineMeditationCreator gets none
HasCallback == component = "card"

\* useEffect(..., [status, contentUrl, onContentGenerated]): the effect runs
\* in a render in which one of the three changed, and acts when status is
\* complete and a URL is set
CompletionDue(h, parent) ==
    /\ h.status = "complete"
    /\ h.contentUrl # NoUrl
    /\ ((parent /\ HasCallback) \/ h.status # status \/ h.contentUrl # contentUrl)

\* the state reset shared by the close effect and the completion effect
Reset(h) ==
    [h EXCEPT !.contentId = NoId, !.isInitiating = FALSE, !.error = NoMessage]

\* the render that follows a handler which left the React state h, with the
\* effects that render runs: the polling effect (an initial poll when
\* shouldPoll or contentId changed), the close effect and the completion
\* effect.  parent: the page rendered too.  p: the requests under way.
AfterRender(h, parent, p) ==
    LET starts == shouldPoll(h) /\ (h.contentId # contentId \/ ~shouldPoll(Cur))
        closes == ~h.isOpen /\ isOpen
        h1 == IF closes THEN [Reset(h) EXCEPT !.fullScreen = FALSE] ELSE h
        h2 == IF CompletionDue(h, parent) THEN Reset(h1) ELSE h1
    IN /\ starts => p[h.contentId] < MaxInflight
       /\ (CompletionDue(h, parent) /\ HasCallback) => notified < MaxNotified
       /\ isOpen' = h2.isOpen
       /\ fullScreen' = h2.fullScreen
       /\ contentId' = h2.contentId
       /\ isInitiating' = h2.isInitiating
       /\ error' = h2.error
       /\ status' = h2.status
       /\ contentUrl' = h2.contentUrl
       /\ pollingError' = h2.pollingError
       /\ polls' = IF starts THEN [p EXCEPT ![h.contentId] = @ + 1] ELSE p
       /\ notified' = IF CompletionDue(h, parent) /\ HasCallback
                      THEN notified + 1 ELSE notified

\* the body shared by handleGenerateCard and handleGenerateGuide: without
\* both identifiers only the message is set; otherwise createContent is sent.
\* One createContent request is under way at a time.
Generate(conversationId, messageId, mode) ==
    /\ isOpen /\ ~fullScreen /\ ~isLoading
    /\ post.state = "none"
    /\ IF conversationId = NoId \/ messageId = NoId
       THEN /\ AfterRender([Cur EXCEPT !.error = MissingInfo], FALSE, polls)
            /\ UNCHANGED post
       ELSE /\ post' = [NoPost EXCEPT !.state = "sent",
                                      !.conversation_id = conversationId,
                                      !.message_id = messageId, !.mode = mode]
            /\ AfterRender([Cur EXCEPT !.isInitiating = TRUE,
                                       !.error = NoMessage], FALSE, polls)
    /\ UNCHANGED <<pipeline, auth, page, component, terminalSeen>>

\* ContemplationModal.handleGenerateCard: mode "image"
handleGenerateCard(conversationId, messageId) ==
    /\ component = "card"
    /\ Generate(conversationId, messageId, "image")

\* InlineMeditationCreator.handleGenerateGuide: the selected format
handleGenerateGuide(conversationId, messageId, selectedFormat) ==
    /\ component = "guide"
    /\ Generate(conversationId, messageId, selectedFormat)

\* the server handles the dialog's POST /content
ServeCreate ==
    /\ post.state = "sent"
    /\ CreateGeneration(post.conversation_id, post.message_id, post.mode)
    /\ post' = [post EXCEPT !.state = "answered", !.reply = response']
    /\ UNCHANGED <<auth, page, component, isOpen, fullScreen, contentId, isInitiating,
                   error, status, contentUrl, pollingError, polls, terminalSeen,
                   notified>>

\* createContent resolved: setContentId(response.id), or the catch branch on
\* a rejection; finally setIsInitiating(false)
CreateReturned ==
    /\ post.state = "answered"
    /\ post' = NoPost
    /\ IF post.reply.status = "pending"
       THEN AfterRender([Cur EXCEPT !.contentId = post.reply.id,
                                    !.isInitiating = FALSE], FALSE, polls)
       ELSE AfterRender([Cur EXCEPT !.error = StartFailed,
                                    !.isInitiating = FALSE], FALSE, polls)
    /\ UNCHANGED <<pipeline, auth, page, component, terminalSeen>>

\* createContent failed before the server handled it (network, timeout)
CreateFailed ==
    /\ post.state = "sent"
    /\ post' = NoPost
    /\ AfterRender([Cur EXCEPT !.error = StartFailed, !.isInitiating = FALSE],
                   FALSE, polls)
    /\ UNCHANGED <<pipeline, auth, page, component, terminalSeen>>

\* setInterval(pollContent, 2000) fires while the polling effect is mounted
PollTimer ==
    /\ shouldPoll(Cur)
    /\ polls[contentId] < MaxInflight
    /\ polls' = [polls EXCEPT ![contentId] = @ + 1]
    /\ UNCHANGED <<pipeline, auth, page, component, isOpen, fullScreen, contentId, isInitiating,
                   error, status, contentUrl, pollingError, post, terminalSeen,
                   notified>>

\* pollContent after its await: GET /content/{id} answered with the record;
\* setStatus, then setContentUrl on complete or setError on failed
PollReturned(id) ==
    /\ polls[id] > 0
    /\ terminalSeen' = IF Terminal(store[id].status)
                       THEN terminalSeen \cup {id} ELSE terminalSeen
    /\ LET rec == store[id]
           h == [Cur EXCEPT
                   !.status = rec.status,
                   !.contentUrl = IF rec.status = "complete"
                                  THEN rec.content_url ELSE @,
                   !.pollingError = IF rec.status = "failed"
                                    THEN GenerationFailed ELSE @]
       IN AfterRender(h, FALSE, [polls EXCEPT ![id] = @ - 1])
    /\ UNCHANGED <<pipeline, auth, page, component, post>>

\* pollContent's catch branch: the request failed
PollFailed(id) ==
    /\ polls[id] > 0
    /\ AfterRender([Cur EXCEPT !.pollingError = StatusCheckFailed], FALSE,
                   [polls EXCEPT ![id] = @ - 1])
    /\ UNCHANGED <<pipeline, auth, page, component, post, terminalSeen>>

\* handleViewCard / handleViewGuide on a finished generation of the list
handleView ==
    /\ isOpen /\ ~fullScreen
    /\ \E i \in Ids : store[i].status = "complete"
    /\ AfterRender([Cur EXCEPT !.fullScreen = TRUE], FALSE, polls)
    /\ UNCHANGED <<pipeline, auth, page, component, post, terminalSeen>>

\* the close button of the full-screen view
ExitFullScreen ==
    /\ fullScreen
    /\ AfterRender([Cur EXCEPT !.fullScreen = FALSE, !.error = NoMessage],
                   FALSE, polls)
    /\ UNCHANGED <<pipeline, auth, page, component, post, terminalSeen>>

\* the page opens or closes the dialog (its own state changes, so it renders)
SetOpen(b) ==
    /\ isOpen # b
    /\ AfterRender([Cur EXCEPT !.isOpen = b], TRUE, polls)
    /\ UNCHANGED <<pipeline, auth, page, component, post, terminalSeen>>

\* the page renders for a reason of its own (conversation reloaded, typing)
ParentRender ==
    /\ AfterRender(Cur, TRUE, polls)
    /\ UNCHANGED <<pipeline, auth, page, component, post, terminalSeen>>

\* the run of record i, from its first stage call to the upload's URL, in
\* one step: what the polling client can observe of a successful run
PipelineCompletes(i) ==
    /\ store[i].status = "processing"
    /\ store' = [store EXCEPT ![i] =
                    CompleteRecord(@, UrlOf(i, req[i].mode))]
    /\ UNCHANGED <<req, stage, calls, uploaded, texts, caches, clock, nextId,
                   response, tmp, locks, client>>

DialogNext ==
    \/ \E c \in ConversationIds \cup {NoId}, m \in MessageIds \cup {NoId} :
          handleGenerateCard(c, m)
    \/ \E c \in ConversationIds \cup {NoId}, m \in MessageIds \cup {NoId},
          f \in {"audio", "video"} : handleGenerateGuide(c, m, f)
    \/ ServeCreate
    \/ CreateReturned
    \/ CreateFailed
    \/ PollTimer
    \/ \E id \in Ids : PollReturned(id)
    \/ \E id \in Ids : PollFailed(id)
    \/ handleView
    \/ ExitFullScreen
    \/ \E b \in BOOLEAN : SetOpen(b)
    \/ ParentRender
    \/ \E c \in ConversationIds \cup {NoId}, m \in MessageIds \cup {NoId},
          mode \in AnyModes : ~WellFormed(c, m, mode) /\ Submit(c, m, mode)
    \/ \E i \in Ids : BeginRun(i)
    \/ \E i \in Ids : Ceiling(i)
    \/ \E i \in Ids : PipelineCompletes(i)

\* either dialog, mounted closed, in front of an empty StatusStore
DialogInitial ==
    /\ PipelineInit
    /\ component \in Kinds
    /\ DialogInit
    /\ AuthInit
    /\ PageInit

DialogSpec == DialogInitial /\ [][DialogNext]_vars

\* ------------------------------------------------------- the Chat page
\* Chat (pages/Index.tsx) owns the three panel flags; showContemplation is
\* ContemplationModal's isOpen and showMeditationCreator is
\* InlineMeditationCreator's.  A handler of the page, the page's render and
\* the effects of the dialog under it are one step.

\* the isOpen prop the modelled dialog gets from the flags c and m
IsOpenProp(c, m) == IF component = "card" THEN c ELSE m

\* the page's state after a handler, and the render of the dialog below it
PageRender(e, c, m, input) ==
    /\ showExploreMore' = e
    /\ showContemplation' = c
    /\ showMeditationCreator' = m
    /\ currentInput' = input
    /\ AfterRender([Cur EXCEPT !.isOpen = IsOpenProp(c, m)], TRUE, polls)
    /\ UNCHANGED <<pipeline, auth, component, post, terminalSeen>>

\* handleExploreMore: the other two closed, the explore panel toggled
handleExploreMore ==
    /\ PageRender(~showExploreMore, FALSE, FALSE, currentInput)

\* a toggle that leaves the other panels as they are
handleMeditationGuideToggleOnly ==
    /\ PageRender(showExploreMore, showContemplation, ~showMeditationCreator,
                  currentInput)

\* handleMeditationGuide: the other two closed, the creator toggled
handleMeditationGuide ==
    /\ PageRender(FALSE, FALSE, ~showMeditationCreator, currentInput)

\* generateContemplationCard: the other two closed, the modal opened
generateContemplationCard ==
    /\ PageRender(FALSE, TRUE, FALSE, currentInput)

\* ExploreMore.onSelectQuestion: the question typed in, the panel closed
onSelectQuestion(question) ==
    /\ showExploreMore
    /\ PageRender(FALSE, showContemplation, showMeditationCreator, question)

\* the onClose prop of a panel that is shown
onClose(panel) ==
    /\ panel = "explore" => showExploreMore
    /\ panel = "contemplation" => showContemplation
    /\ panel = "meditation" => showMeditationCreator
    /\ PageRender(showExploreMore /\ panel # "explore",
                  showContemplation /\ panel # "contemplation",
                  showMeditationCreator /\ panel # "meditation",
                  currentInput)

PageNext ==
    \/ handleExploreMore
    \/ handleMeditationGuide
    \/ generateContemplationCard
    \/ \E question \in Questions : onSelectQuestion(question)
    \/ \E panel \in {"explore", "contemplation", "meditation"} : onClose(panel)
    \/ \E c \in ConversationIds, m \in MessageIds : handleGenerateCard(c, m)
    \/ \E c \in ConversationIds, m \in MessageIds, f \in {"audio", "video"} :
          handleGenerateGuide(c, m, f)
    \/ ServeCreate
    \/ CreateReturned
    \/ PollTimer
    \/ \E id \in Ids : PollReturned(id)
    \/ \E i \in Ids : BeginRun(i)
    \/ \E i \in Ids : PipelineCompletes(i)

PageSpec == DialogInitial /\ [][PageNext]_vars

\* ------------------------------------------------------- authentication
\* AuthProvider (contexts/AuthContext.tsx), the response interceptor of the
\* API client (apis/client.ts), ProtectedRoute and the sign-in page.  A
\* handler or the continuation of an await, the render that follows it and
\* the effects of that render are one step.

\* a route guard that does not wait for the authentication check
ProtectedRouteNoSpinner(isLoading_, isAuthenticated_) ==
    IF ~isAuthenticated_ THEN "navigate" ELSE "children"

\* ProtectedRoute: spinner while loading, <Navigate to="/signin"> when not
\* authenticated, else its children
ProtectedRoute(isLoading_, isAuthenticated_) ==
    IF isLoading_ THEN "spinner"
    ELSE IF ~isAuthenticated_ THEN "navigate"
    ELSE "children"

\* the interceptor's case 401: both tokens removed
Interceptor401(storage) == NoTokens

\* the render of AuthProvider and of the route at p after the state was set
\* to u, loading, storage: isAuthenticated is computed, the sign-in page's
\* effect leaves for "/" when authenticated and not loading, ProtectedRoute
\* returns its element and <Navigate> moves the router to /signin
Render(u, loading, storage, p) ==
    LET authed == u # NoUser /\ storage.accessToken # NoToken
        q == IF p = "/signin" /\ authed /\ ~loading THEN "/" ELSE p
        shown == ProtectedRoute(loading, authed)
    IN /\ user' = u
       /\ authIsLoading' = loading
       /\ localStorage' = storage
       /\ isAuthenticated' = authed
       /\ rendered' = IF q = "/signin" THEN "unmounted" ELSE shown
       /\ path' = IF q # "/signin" /\ shown = "navigate" THEN "/signin" ELSE q
       /\ commit' = ~commit

\* the mount effect calls checkAuth(): without an access token loading ends,
\* otherwise GET /auth/me is sent
checkAuth ==
    /\ check = "start"
    /\ IF localStorage.accessToken = NoToken
       THEN /\ check' = "done"
            /\ Render(user, FALSE, localStorage, path)
       ELSE /\ check' = "me"
            /\ UNCHANGED <<user, authIsLoading, isAuthenticated, localStorage,
                           path, rendered, commit>>
    /\ UNCHANGED <<pipeline, dialog, page, refreshing, loginCall, logoutCall,
                   navigating, lastReply, issued>>

\* /auth/me answered with the user: setUser, setIsLoading(false)
MeOk ==
    /\ check = "me"
    /\ check' = "done"
    /\ lastReply' = [call |-> "me", status |-> 200]
    /\ Render(TheUser, FALSE, localStorage, path)
    /\ UNCHANGED <<pipeline, dialog, page, refreshing, loginCall, logoutCall,
                   navigating, issued>>

\* a catch branch that clears the tokens and the user and leaves the
\* loading flag as it was
MeFailedKeepsLoading(code) ==
    /\ check = "me"
    /\ lastReply' = [call |-> "me", status |-> code]
    /\ navigating' = (navigating \/ code = 401)
    /\ check' = "done"
    /\ Render(NoUser, authIsLoading, NoTokens, path)
    /\ UNCHANGED <<pipeline, dialog, page, refreshing, loginCall, logoutCall,
                   issued>>

\* /auth/me failed.  On 401 the interceptor runs first; checkAuth's catch
\* then calls refreshToken(), which sends /auth/refresh when it finds a
\* refresh token in the storage and returns false when it finds none; on
\* false, and on any other failure, the tokens are removed, the user and
\* the loading flag cleared
MeFailed(code) ==
    /\ check = "me"
    /\ lastReply' = [call |-> "me", status |-> code]
    /\ navigating' = (navigating \/ code = 401)
    /\ LET storage == IF code = 401 THEN Interceptor401(localStorage)
                      ELSE localStorage
       IN IF code = 401 /\ storage.refreshToken # NoToken
          THEN /\ check' = "refresh"
               /\ refreshing' = [caller |-> "checkAuth",
                                 refresh_token |-> storage.refreshToken]
               /\ localStorage' = storage
               /\ UNCHANGED <<user, authIsLoading, isAuthenticated, path,
                              rendered, commit>>
          ELSE /\ check' = "done"
               /\ Render(NoUser, FALSE, NoTokens, path)
               /\ UNCHANGED refreshing
    /\ UNCHANGED <<pipeline, dialog, page, loginCall, logoutCall, issued>>

\* the 50-minute interval fires: refreshToken() when the last render found
\* the user authenticated; it sends /auth/refresh with the stored token
RefreshTimer ==
    /\ isAuthenticated
    /\ refreshing = NotRefreshing
    /\ localStorage.refreshToken # NoToken
    /\ refreshing' = [caller |-> "timer",
                      refresh_token |-> localStorage.refreshToken]
    /\ UNCHANGED <<pipeline, dialog, page, user, authIsLoading, isAuthenticated,
                   localStorage, path, rendered, commit, check, loginCall,
                   logoutCall, navigating, lastReply, issued>>

\* /auth/refresh answered with a new pair: both stored, setUser; checkAuth,
\* when it was the caller, calls itself again and sends /auth/me
RefreshOk(caller) ==
    /\ refreshing.caller = caller
    /\ caller # "none"
    /\ issued < MaxTokens
    /\ issued' = issued + 1
    /\ refreshing' = NotRefreshing
    /\ lastReply' = [call |-> "refresh", status |-> 200]
    /\ check' = IF caller = "checkAuth" THEN "me" ELSE check
    /\ Render(TheUser, authIsLoading,
              [accessToken |-> issued + 1, refreshToken |-> issued + 1], path)
    /\ UNCHANGED <<pipeline, dialog, page, loginCall, logoutCall, navigating>>

\* /auth/refresh failed: the interceptor on 401, then refreshToken's catch
\* removes the tokens and clears the user; checkAuth, when it was the
\* caller, goes on to clear the loading flag
RefreshFailed(caller, code) ==
    /\ refreshing.caller = caller
    /\ caller # "none"
    /\ refreshing' = NotRefreshing
    /\ lastReply' = [call |-> "refresh", status |-> code]
    /\ navigating' = (navigating \/ code = 401)
    /\ check' = IF caller = "checkAuth" THEN "done" ELSE check
    /\ Render(NoUser, IF caller = "checkAuth" THEN FALSE ELSE authIsLoading,
              NoTokens, path)
    /\ UNCHANGED <<pipeline, dialog, page, loginCall, logoutCall, issued>>

\* the sign-in page calls login(phoneNumber, otp)
login ==
    /\ path = "/signin"
    /\ loginCall = "idle"
    /\ loginCall' = "sent"
    /\ UNCHANGED <<pipeline, dialog, page, user, authIsLoading, isAuthenticated,
                   localStorage, path, rendered, commit, check, refreshing,
                   logoutCall, navigating, lastReply, issued>>

\* /auth/login answered.  With access_token in the answer both tokens are
\* stored and the user set, and the page's handler navigates to "/"; the
\* answer of the first step (OTP sent) changes nothing
LoginOk(withTokens) ==
    /\ loginCall = "sent"
    /\ loginCall' = "idle"
    /\ lastReply' = [call |-> "login", status |-> 200]
    /\ IF withTokens
       THEN /\ issued < MaxTokens
            /\ issued' = issued + 1
            /\ Render(TheUser, authIsLoading,
                      [accessToken |-> issued + 1, refreshToken |-> issued + 1],
                      "/")
       ELSE UNCHANGED <<user, authIsLoading, isAuthenticated, localStorage,
                        path, rendered, commit, issued>>
    /\ UNCHANGED <<pipeline, dialog, page, check, refreshing, logoutCall, navigating>>

\* /auth/login failed: login() rethrows; on 401 the interceptor has run
LoginFailed(code) ==
    /\ loginCall = "sent"
    /\ loginCall' = "idle"
    /\ lastReply' = [call |-> "login", status |-> code]
    /\ navigating' = (navigating \/ code = 401)
    /\ localStorage' = IF code = 401 THEN Interceptor401(localStorage)
                       ELSE localStorage
    /\ UNCHANGED <<pipeline, dialog, page, user, authIsLoading, isAuthenticated, path,
                   rendered, commit, check, refreshing, logoutCall, issued>>

\* the user menu of a protected page calls logout(): POST /auth/logout
logout ==
    /\ rendered = "children"
    /\ logoutCall = "idle"
    /\ logoutCall' = "sent"
    /\ UNCHANGED <<pipeline, dialog, page, user, authIsLoading, isAuthenticated,
                   localStorage, path, rendered, commit, check, refreshing,
                   loginCall, navigating, lastReply, issued>>

\* /auth/logout answered or failed: the finally block removes both tokens
\* and clears the user whatever the outcome
LogoutDone(code) ==
    /\ logoutCall = "sent"
    /\ logoutCall' = "idle"
    /\ lastReply' = [call |-> "logout", status |-> code]
    /\ navigating' = (navigating \/ code = 401)
    /\ Render(NoUser, authIsLoading, NoTokens, path)
    /\ UNCHANGED <<pipeline, dialog, page, check, refreshing, loginCall, issued>>

\* authAPI.logout of the API module (no component of the tree calls it; it
\* is exported next to AuthProvider's logout): POST /auth/logout
authAPI_logout ==
    /\ rendered = "children"
    /\ logoutCall = "idle"
    /\ logoutCall' = "api"
    /\ UNCHANGED <<pipeline, dialog, page, user, authIsLoading, isAuthenticated,
                   localStorage, path, rendered, commit, check, refreshing,
                   loginCall, navigating, lastReply, issued>>

\* authAPI.logout after its await: the two removeItem calls follow the
\* request and run only when it did not throw; on 401 the interceptor has
\* run; no state of AuthProvider is set
AuthApiLogoutDone(code) ==
    /\ logoutCall = "api"
    /\ logoutCall' = "idle"
    /\ lastReply' = [call |-> "logout", status |-> code]
    /\ navigating' = (navigating \/ code = 401)
    /\ localStorage' = IF code = 200 THEN NoTokens
                       ELSE IF code = 401 THEN Interceptor401(localStorage)
                       ELSE localStorage
    /\ UNCHANGED <<pipeline, dialog, page, user, authIsLoading, isAuthenticated,
                   path, rendered, commit, check, refreshing, loginCall, issued>>

\* a request of a protected page other than the four above is answered 401:
\* only the interceptor acts, no state of AuthProvider is set
Api401 ==
    /\ rendered = "children"
    /\ ~navigating
    /\ localStorage' = Interceptor401(localStorage)
    /\ navigating' = TRUE
    /\ UNCHANGED <<pipeline, dialog, page, user, authIsLoading, isAuthenticated, path,
                   rendered, commit, check, refreshing, loginCall, logoutCall,
                   lastReply, issued>>

\* the document is loaded at p: by the user at any time, at /signin once the
\* interceptor has assigned window.location.href.  The application starts
\* over; requests of the page before are dropped; the storage stays
PageLoad(p) ==
    /\ navigating => p = "/signin"
    /\ user' = NoUser
    /\ authIsLoading' = TRUE
    /\ isAuthenticated' = FALSE
    /\ path' = p
    /\ rendered' = IF p = "/signin" THEN "unmounted" ELSE "spinner"
    /\ commit' = ~commit
    /\ check' = "start"
    /\ refreshing' = NotRefreshing
    /\ loginCall' = "idle"
    /\ logoutCall' = "idle"
    /\ navigating' = FALSE
    /\ lastReply' = NoReply
    /\ UNCHANGED <<pipeline, dialog, page, localStorage, issued>>

AuthNext ==
    \/ checkAuth
    \/ MeOk
    \/ \E code \in {401, 500} : MeFailed(code)
    \/ RefreshTimer
    \/ \E caller \in {"timer", "checkAuth"} : RefreshOk(caller)
    \/ \E caller \in {"timer", "checkAuth"}, code \in {401, 500} :
          RefreshFailed(caller, code)
    \/ login
    \/ \E withTokens \in BOOLEAN : LoginOk(withTokens)
    \/ \E code \in {401, 500} : LoginFailed(code)
    \/ logout
    \/ \E code \in {200, 401, 500} : LogoutDone(code)
    \/ authAPI_logout
    \/ \E code \in {200, 401, 500} : AuthApiLogoutDone(code)
    \/ Api401
    \/ \E p \in Paths : PageLoad(p)

AuthSpec == Init /\ [][AuthNext]_vars

\* the mount effect runs, and every request of checkAuth is answered or
\* rejected: the API client gives up after its 40-second timeout
AuthFairness ==
    /\ WF_vars(checkAuth)
    /\ WF_vars(MeOk \/ \E code \in {401, 500} : MeFailed(code))
    /\ WF_vars(RefreshOk("checkAuth")
               \/ \E code \in {401, 500} : RefreshFailed("checkAuth", code))

AuthFairSpec == Init /\ [][AuthNext]_vars /\ AuthFairness

\* ---------------------------------------------------------------- claims
Created(i) == store[i].status # "none"
Failed(st) == st \in {"failed", "timedout"}
Finished(st) == st \in {"hit", "ok", "failed", "timedout"}
Done(st) == st \in {"hit", "ok"}

\* C1: once a record's status is complete or failed, no later step (stage
\* result, timeout, ceiling, late result) changes its status, content_url
\* or error.
C1_TerminalImmutable ==
    [][\A i \in Ids : Terminal(store[i].status) => store'[i] = store[i]]_vars

\* a run failed by the ceiling whose upload answered afterwards: a late
\* stage result met a terminal record
C1_Witness ==
    \E i \in Ids : /\ store[i].status = "failed"
                    /\ store[i].error = ErrorOf("run", "timeout")
                    /\ stage[i]["upload"] = "ok"

AllowedMoves == {<<"none", "pending">>, <<"pending", "processing">>,
                 <<"processing", "complete">>, <<"processing", "failed">>}

C5_SingleTextCall ==
    \A i, j \in Ids :
        (/\ i # j
         /\ req[i].mode = "audio" /\ req[j].mode = "audio"
         /\ req[i].source = req[j].source
         /\ now = 0)
        => calls[i]["text"] + calls[j]["text"] <= 1

C7_DataDependencies ==
    \A i \in Ids :
        /\ stage[i]["speech"] # "idle" =>
              Done(stage[i]["text"]) /\ transcript[i] # NoText
        /\ stage[i]["encode"] # "idle" =>
              Done(stage[i]["image"]) /\ stage[i]["speech"] = "ok"
        /\ stage[i]["upload"] # "idle" =>
              /\ uploaded[i] = "image" => Done(stage[i]["image"])
              /\ uploaded[i] = "audio" => stage[i]["speech"] = "ok"
              /\ uploaded[i] = "video" => stage[i]["encode"] = "ok"
              /\ uploaded[i] # "none"

\* a video run whose upload is out, and an image run whose upload is out
C7_Witness ==
    \E i, j \in Ids : /\ req[i].mode = "video"
                       /\ stage[i]["upload"] = "running"
                       /\ req[j].mode = "image"
                       /\ stage[j]["upload"] = "running"

C9_StagesByMode ==
    \A i \in Ids :
        /\ req[i].mode = "image" =>
              /\ stage[i]["speech"] = "idle" /\ calls[i]["speech"] = 0
              /\ stage[i]["encode"] = "idle" /\ calls[i]["encode"] = 0
        /\ req[i].mode = "audio" =>
              stage[i]["encode"] = "idle" /\ calls[i]["encode"] = 0
        /\ (stage[i]["encode"] # "idle" \/ calls[i]["encode"] > 0) =>
              req[i].mode = "video"
        /\ store[i].status = "complete" =>
              /\ calls[i]["upload"] = 1
              /\ uploaded[i] = req[i].mode
              /\ store[i].content_url = UrlOf(i, req[i].mode)

\* an audio run and a video run both complete
C9_Witness ==
    \E i, j \in Ids : /\ req[i].mode = "audio"
                       /\ store[i].status = "complete"
                       /\ req[j].mode = "video"
                       /\ store[j].status = "complete"
                       /\ calls[j]["encode"] = 1

\* another run with j's source produced its transcript less than CACHE_TTL ago
FreshTranscriptFor(j) ==
    \E i \in Ids : /\ i # j
                    /\ req[i].source = req[j].source
                    /\ stage[i]["text"] = "ok"
                    /\ now < textAt[i] + CACHE_TTL

\* C10: when run j consults the cache after another run with the same
\* source produced its transcript less than CACHE_TTL ago, j's transcript
\* stage makes no external text-generation call and returns the cached text.
C10_CacheHitNoCall ==
    [][\A j \in Ids :
          (/\ stage[j]["text"] = "launched"
           /\ stage'[j]["text"] # "launched"
           /\ FreshTranscriptFor(j))
          => /\ stage'[j]["text"] = "hit"
             /\ calls'[j]["text"] = 0
             /\ transcript'[j] # NoText
             /\ transcript'[j] =
                   transcript_cache[get_cache_key(req[j].source)].value
             /\ req[transcript'[j]].source = req[j].source]_vars

\* a later run holding the text an earlier run generated, with no call made
C10_Witness ==
    \E i, j \in Ids : /\ i # j
                       /\ stage[i]["text"] = "ok"
                       /\ stage[j]["text"] = "hit"
                       /\ calls[j]["text"] = 0
                       /\ transcript[j] = i
                       /\ req[i].source = req[j].source

C12_CacheWrittenOnSuccess ==
    /\ [](\A k \in Sources :
            transcript_cache[k] # NoEntry =>
                /\ stage[transcript_cache[k].value]["text"] = "ok"
                /\ get_cache_key(req[transcript_cache[k].value].source) = k)
    /\ [](image_cache[IMAGE_PROMPT] # NoEntry =>
                stage[image_cache[IMAGE_PROMPT].value]["image"] = "ok")
    /\ [](\A j \in Ids :
            stage[j]["text"] = "hit" =>
                /\ stage[transcript[j]]["text"] = "ok"
                /\ req[transcript[j]].source = req[j].source)
    /\ [][\A k \in Sources :
            transcript_cache'[k] # transcript_cache[k] =>
                \E i \in Ids : /\ get_cache_key(req[i].source) = k
                                /\ stage[i]["text"] = "running"
                                /\ stage'[i]["text"] = "ok"]_vars
    /\ [][(\E i \in Ids, s \in Stages :
                stage[i][s] = "running" /\ Failed(stage'[i][s]))
            => UNCHANGED caches]_vars

\* one transcript call failed and another timed out: neither left an entry,
\* while the image call that succeeded did
C12_Witness ==
    \E i, j \in Ids :
        /\ stage[i]["text"] = "failed"
        /\ stage[j]["text"] = "timedout"
        /\ \A k \in Sources : transcript_cache[k] = NoEntry
        /\ stage[i]["image"] = "ok"
        /\ image_cache[IMAGE_PROMPT].value = i

C14_TempFilesRemoved ==
    /\ [](\A i \in Ids : tmp[i] # {} =>
              /\ stage[i]["encode"] = "running"
              /\ store[i].status = "processing")
    /\ [][\A i \in Ids :
            (stage[i]["encode"] = "running" /\ stage'[i]["encode"] # "running")
                => tmp'[i] = {}]_vars
    /\ [][\A i \in Ids :
            (store[i].status # "failed" /\ store'[i].status = "failed")
                => tmp'[i] = {}]_vars

\* one encoder invocation ended in success and one in failure or timeout,
\* and neither run has a temporary file left
C14_Witness ==
    \E i, j \in Ids : /\ stage[i]["encode"] = "ok"
                       /\ Failed(stage[j]["encode"])
                       /\ store[j].status = "failed"
                       /\ tmp[i] = {}
                       /\ tmp[j] = {}

C16_NoPollAfterTerminal ==
    [][\A id \in Ids : id \in terminalSeen => polls'[id] <= polls[id]]_vars

\* the generations the dialog has seen complete
SeenComplete == {id \in terminalSeen : store[id].status = "complete"}

\* C17: onContentGenerated is called once for each generation that
\* ContemplationModal observes as complete, however often the page renders
\* afterwards: the calls never outnumber the completions observed.
C17_NotifiedOncePerCompletion ==
    notified <= Cardinality(SeenComplete)

\* C18: a content id that is tracked and for which no poll has returned
\* complete or failed keeps the dialog loading, and it stops being tracked
\* only when such a poll returns or the dialog closes: status and
\* contentUrl left from an earlier generation do neither.
C18_NewGenerationStaysLoading ==
    /\ [](contentId # NoId /\ contentId \notin terminalSeen => isLoading)
    /\ [][(contentId # NoId /\ contentId' # contentId) =>
              (~isOpen' \/ contentId \in terminalSeen')]_vars

\* C19: when /auth/me answers 401 during checkAuth and a refresh token is
\* stored, checkAuth sends /auth/refresh with that token; when that refresh
\* succeeds, /auth/me is sent again and the user is set with the new tokens
\* stored.
C19_RefreshOn401 ==
    /\ [][(/\ check = "me"
            /\ lastReply' = [call |-> "me", status |-> 401]
            /\ localStorage.refreshToken # NoToken)
           => /\ check' = "refresh"
              /\ refreshing' = [caller |-> "checkAuth",
                                refresh_token |-> localStorage.refreshToken]]_vars
    /\ [][(/\ refreshing.caller = "checkAuth"
            /\ refreshing' = NotRefreshing
            /\ lastReply' = [call |-> "refresh", status |-> 200])
           => /\ check' = "me"
              /\ user' = TheUser
              /\ localStorage' = [accessToken |-> issued',
                                  refreshToken |-> issued']]_vars

\* C20: a render in which ProtectedRoute returns its children is a render
\* with isLoading false, a user set and an access token stored; a render
\* with isLoading false and either of the two missing ends at /signin with
\* no protected page; and while no user is set (after logout, a failed
\* refresh, a failed checkAuth) no protected page is shown.
C20_ProtectedRouteGate ==
    /\ [][commit' # commit =>
            /\ rendered' = "children" =>
                  /\ ~authIsLoading'
                  /\ isAuthenticated'
                  /\ user' # NoUser
                  /\ localStorage'.accessToken # NoToken
            /\ (~authIsLoading'
                /\ (user' = NoUser \/ localStorage'.accessToken = NoToken)) =>
                  /\ rendered' \in {"navigate", "unmounted"}
                  /\ path' = "/signin"]_vars
    /\ [](user = NoUser => rendered # "children")
    /\ [](rendered = "children" => path # "/signin")

\* the render that follows a logout from a protected page: redirected
C20_Witness ==
    /\ lastReply.call = "logout"
    /\ user = NoUser
    /\ ~authIsLoading
    /\ localStorage = NoTokens
    /\ rendered = "navigate"
    /\ path = "/signin"

\* C21: when a logout call ends, whether /auth/logout answered or failed,
\* neither accessToken nor refreshToken is left in localStorage.
C21_LogoutRemovesTokens ==
    [][(/\ logoutCall # "idle"
        /\ logoutCall' = "idle"
        /\ lastReply'.call = "logout")
       => localStorage' = NoTokens]_vars

\* C22: an invocation of checkAuth that has returned has left isLoading
\* false, and an invocation waiting for /auth/me or /auth/refresh returns,
\* whatever the server answers, unless the document is loaded anew under it
\* (which starts the next invocation).
C22_CheckAuthEndsLoading ==
    /\ [](check = "done" => ~authIsLoading)
    /\ (check \in {"me", "refresh"}) ~> (check \in {"done", "start"})

\* checkAuth has returned after /auth/me answered 401: loading is over
C22_Witness ==
    /\ check = "done"
    /\ lastReply = [call |-> "me", status |-> 401]
    /\ ~authIsLoading
    /\ user = NoUser
    /\ localStorage = NoTokens

\* C23: a getContent answer changes the hook's status, contentUrl or error
\* only when it answers a poll for the content id tracked at that moment,
\* and an answer for an id already seen terminal leaves a terminal status.
C23_OnlyCurrentPollApplies ==
    [][\A id \in Ids :
          polls'[id] < polls[id] =>
              /\ id # contentId =>
                    UNCHANGED <<status, contentUrl, pollingError>>
              /\ id \in terminalSeen => Terminal(status')]_vars

\* C24: in the state reached by the step in which a poll for the tracked id
\* first answers complete, no error message is displayed: displayError is
\* null, whatever earlier polls or an earlier failed generation recorded.
C24_NoErrorWhenComplete ==
    [][\A id \in Ids :
          (/\ id = contentId
           /\ id \notin terminalSeen
           /\ id \in terminalSeen'
           /\ status' = "complete")
          => displayError' = NoMessage]_vars

\* C25: after any sequence of the three buttons, question selections and
\* panel closes, at most one of showExploreMore, showContemplation and
\* showMeditationCreator is true; the modelled dialog is open exactly when
\* its flag is set.
C25_AtMostOnePanel ==
    /\ ~(showExploreMore /\ showContemplation)
    /\ ~(showExploreMore /\ showMeditationCreator)
    /\ ~(showContemplation /\ showMeditationCreator)
    /\ isOpen = IsOpenProp(showContemplation, showMeditationCreator)

\* the creator is shown after a question was picked from the explore panel,
\* with a generation of the guide under way
C25_Witness ==
    /\ showMeditationCreator
    /\ ~showExploreMore
    /\ ~showContemplation
    /\ currentInput \in Questions
    /\ component = "guide"
    /\ contentId # NoId
====
